---- MODULE Spec2Model ----
(***************************************************************************)
(* pass-fxa: one run of src/main.rs as a state machine.                    *)
(*                                                                         *)
(* The run lists the secrets of the password store, decrypts them one by   *)
(* one into local logins, folds the fxa markers into the include/exclude   *)
(* flags, picks the Firefox Account credentials, authenticates, fetches    *)
(* the remote logins and submits one batch (put_logins or delete_objects). *)
(*                                                                         *)
(* Option<T> and Result<T, E> values are written <<>> (None / Err) and     *)
(* <<v>> (Some(v) / Ok(v)).                                                *)
(***************************************************************************)
EXTENDS Naturals, Sequences, FiniteSets

VARIABLES
    opt,                 \* Opt: [pass_name, subcommand]
    secrets,             \* store.secrets(None): the secret names, in listing order
    i,                   \* number of secrets the loop has processed
    firefox_credentials, \* Option<LocalLogin>
    firefox_matches,     \* Vec<(secret name, username)>
    local_logins,        \* Vec<LocalLogin>
    include,             \* bool
    exclude,             \* bool
    remote_logins,       \* Vec<Login>, set by get_logins
    pc,                  \* position of main
    status,              \* "running", or how the process ended
    net,                 \* the calls made on the sync client, in order
    out,                 \* what the run printed (progress lines left out)
    extracted,           \* history: every Some(login) of LocalLogin::new with its secret name
    skipped,             \* history: the names LocalLogin::new returned None for
    cred_name,           \* history: the secret firefox_credentials was cloned from
    decrypted            \* history: what decrypt_file returned in the latest iteration,
                         \* as Seen below (None before the first one and once the
                         \* loop is over)

vars == <<opt, secrets, i, firefox_credentials, firefox_matches, local_logins,
          include, exclude, remote_logins, pc, status, net, out, extracted,
          skipped, cred_name, decrypted>>

None == <<>>
Some(v) == <<v>>

----------------------------------------------------------------------------
(* Bounds of the model.                                                    *)

MaxSecrets == 2
MaxRemote == 2

----------------------------------------------------------------------------
(* Secret names are paths; a name is the sequence of its segments.         *)

StoreNames == { <<"firefox.com", "me">>, <<"X.com", "a">>, <<"top">> }

PROPERTY_USER_NAMES == <<"login", "username", "user">>
PROPERTY_URL_NAMES == <<"url", "uri", "website", "site", "link", "launch">>

PropNames == {"login", "username", "user", "url", "uri", "website", "site",
              "link", "launch", "fxa"}

\* A property map from a set of <<name, value>> pairs.
Props(pairs) ==
    [n \in PropNames |->
        IF \E p \in pairs : p[1] = n
        THEN Some((CHOOSE p \in pairs : p[1] = n)[2])
        ELSE None]

UrlProps == { {},
              {<<"url", "https://firefox.com">>},
              {<<"uri", "https://www.firefox.com">>, <<"website", "https://firefox.com">>},
              {<<"site", "nonsense">>},
              {<<"launch", "mailto:me@x.com">>} }

UserProps == { {}, {<<"username", "a">>, <<"user", "bob">>} }

FxaProps == { {}, {<<"fxa", "include">>}, {<<"fxa", "exclude">>}, {<<"fxa", "yes">>} }

Passwords == {"p1", "p2"}

\* What decrypt_file can return for a secret: Err, or Ok(plaintext).
Plaintexts ==
    { [first_line |-> Some("p1"), props |-> Props(u \cup f)] :
        u \in UrlProps, f \in FxaProps }
    \cup { [first_line |-> Some("p1"), props |-> Props(n)] : n \in UserProps }
    \cup { [first_line |-> Some("p2"), props |-> Props({})] }
    \cup { [first_line |-> None, props |-> Props(u)] : u \in UrlProps }

DecryptResults == { [ok |-> FALSE] } \cup { [ok |-> TRUE, plaintext |-> p] : p \in Plaintexts }

----------------------------------------------------------------------------
(* url::Url: parsing normalises (lower-case host, "/" for an empty path).  *)

Url(scheme, host, path) == [scheme |-> scheme, host |-> host, path |-> path]

UrlParse(text) ==
    CASE text = "https://firefox.com" -> Some(Url("https", Some("firefox.com"), "/"))
      [] text = "https://www.firefox.com" ->
             Some(Url("https", Some("www.firefox.com"), "/"))
      [] text = "https://X.com"       -> Some(Url("https", Some("x.com"), "/"))
      [] text = "mailto:me@x.com"     -> Some(Url("mailto", None, "me@x.com"))
      [] OTHER                        -> None

host_str(url) == url.host

----------------------------------------------------------------------------
(* Filter and LocalLogin.                                                  *)

FilterTryFrom(value) ==
    CASE value = "exclude" -> Some("Exclude")
      [] value = "include" -> Some("Include")
      [] OTHER             -> None

RECURSIVE FindMap(_, _, _)
FindMap(plaintext, names, k) ==
    IF k > Len(names) THEN None
    ELSE IF plaintext.props[names[k]] # None THEN plaintext.props[names[k]]
    ELSE FindMap(plaintext, names, k + 1)

plaintext_property_any(plaintext, names) == FindMap(plaintext, names, 1)

\* Path::file_name of the name and of its parent.
FileName(name) == name[Len(name)]
ParentFileName(name) == IF Len(name) >= 2 THEN Some(name[Len(name) - 1]) ELSE None

\* LocalLogin::new from the url on, for a plaintext that has a first line.
\* kind is "panic" (an unwrap or expect failed), "none" (returned None) or
\* "some" (returned Some(login)).
LocalLoginFields(name, plaintext) ==
    LET url_prop == plaintext_property_any(plaintext, PROPERTY_URL_NAMES)
        user_prop == plaintext_property_any(plaintext, PROPERTY_USER_NAMES)
        fxa_prop == plaintext.props["fxa"]
    IN
    IF url_prop = None /\ ParentFileName(name) = None THEN [kind |-> "none"]
    ELSE LET parsed == IF url_prop = None
                       THEN UrlParse("https://" \o ParentFileName(name)[1])
                       ELSE UrlParse(url_prop[1])
         IN
         IF parsed = None THEN [kind |-> "panic", msg |-> "Url::parse().unwrap()"]
         ELSE IF fxa_prop # None /\ FilterTryFrom(fxa_prop[1]) = None
              THEN [kind |-> "panic", msg |-> "Unkown setting"]
         ELSE [kind |-> "some",
               login |-> [password |-> plaintext.first_line[1],
                          username |-> IF user_prop = None THEN FileName(name)
                                       ELSE user_prop[1],
                          url |-> parsed[1],
                          filter |-> IF fxa_prop = None THEN None
                                     ELSE FilterTryFrom(fxa_prop[1])]]

\* Variant: a plaintext without a first line makes new return None.
LocalLoginNewSkipsNoPassword(name, result) ==
    IF ~result.ok THEN [kind |-> "exit"]
    ELSE IF result.plaintext.first_line = None THEN [kind |-> "none"]
    ELSE LocalLoginFields(name, result.plaintext)

\* LocalLogin::new.  kind "exit" is exit(1) on a decryption failure.
LocalLoginNew(name, result) ==
    IF ~result.ok THEN [kind |-> "exit"]
    ELSE IF result.plaintext.first_line = None
         THEN [kind |-> "panic", msg |-> "first_line().unwrap()"]
    ELSE LocalLoginFields(name, result.plaintext)

\* pass_fxa_lib::Login.  Login::new makes a login with a fresh id, written
\* NewId; with_password copies the login and replaces its password.
NewId == 0
LoginNew(username, password, hostname) ==
    [id |-> NewId, username |-> username, password |-> password, hostname |-> hostname]
with_password(login, password) == [login EXCEPT !.password = password]

\* Variant: the scan compares usernames only.
RECURSIVE ToLoginFromAnyHost(_, _, _)
ToLoginFromAnyHost(self, online_logins, k) ==
    IF k > Len(online_logins)
    THEN Some(LoginNew(self.username, self.password, self.url))
    ELSE LET online_login == online_logins[k] IN
         IF online_login.username = self.username
         THEN IF online_login.password = self.password
              THEN None
              ELSE Some(with_password(online_login, self.password))
         ELSE ToLoginFromAnyHost(self, online_logins, k + 1)

\* LocalLogin::to_login: Option<Login>; the scan from the k-th remote login on.
RECURSIVE ToLoginFrom(_, _, _)
ToLoginFrom(self, online_logins, k) ==
    IF k > Len(online_logins)
    THEN Some(LoginNew(self.username, self.password, self.url))
    ELSE LET online_login == online_logins[k] IN
         IF online_login.username = self.username /\ online_login.hostname = self.url
         THEN IF online_login.password = self.password
              THEN None
              ELSE Some(with_password(online_login, self.password))
         ELSE ToLoginFrom(self, online_logins, k + 1)

to_login(self, online_logins) == ToLoginFrom(self, online_logins, 1)

\* filter_map(|local_login| local_login.to_login(&remote_logins)).collect()
RECURSIVE ToLogins(_, _)
ToLogins(locals, remotes) ==
    IF locals = <<>> THEN <<>>
    ELSE to_login(Head(locals), remotes) \o ToLogins(Tail(locals), remotes)

\* Variant: the filter keeps the unmarked logins when include is set.
UploadFilterInverted(incl, login) == incl = (login.filter = None)

\* The filter of upload's first branch.
UploadFilter(incl, login) == incl = (login.filter # None)

\* upload: the local logins that reach to_login.
filtered_logins(excl, incl, locals) ==
    IF excl \/ incl
    THEN SelectSeq(locals, LAMBDA login : UploadFilter(incl, login))
    ELSE locals

\* upload: the logins handed to put_logins.
logins_to_upload(excl, incl, locals, remotes) ==
    ToLogins(filtered_logins(excl, incl, locals), remotes)

\* Variant: the find does not compare passwords.
DeleteMatchNoPassword(local_login, remote_login) ==
    /\ local_login.username = remote_login.username
    /\ local_login.url = remote_login.hostname

\* The predicate of delete's find.
DeleteMatch(local_login, remote_login) ==
    /\ local_login.username = remote_login.username
    /\ local_login.password = remote_login.password
    /\ local_login.url = remote_login.hostname

\* delete: the ids handed to delete_objects.
RECURSIVE logins_to_delete(_, _)
logins_to_delete(locals, remotes) ==
    IF remotes = <<>> THEN <<>>
    ELSE LET remote_login == Head(remotes) IN
         (IF \E k \in 1..Len(locals) : DeleteMatch(locals[k], remote_login)
          THEN Some(remote_login.id) ELSE None)
         \o logins_to_delete(locals, Tail(remotes))

----------------------------------------------------------------------------
(* The remote snapshots get_logins can return: ids are unique.             *)

RemoteKinds ==
    { [username |-> "a", password |-> p, hostname |-> Url("https", Some("x.com"), "/")] :
        p \in Passwords }

RemoteSnapshots ==
    UNION { { [k \in 1..n |-> [id |-> k, username |-> f[k].username,
                               password |-> f[k].password, hostname |-> f[k].hostname]] :
                f \in [1..n -> RemoteKinds] } : n \in 0..MaxRemote }

\* The stores: lists of distinct names.
Stores ==
    UNION { { s \in [1..n -> StoreNames] : \A a, b \in 1..n : a # b => s[a] # s[b] } :
              n \in 0..MaxSecrets }

----------------------------------------------------------------------------
(* main                                                                    *)

Init ==
    /\ opt \in [pass_name : {None} \cup { Some(n) : n \in StoreNames },
                subcommand : {None, Some("Delete")}]
    /\ secrets \in Stores
    /\ i = 0
    /\ firefox_credentials = None
    /\ firefox_matches = <<>>
    /\ local_logins = <<>>
    /\ include = FALSE
    /\ exclude = FALSE
    /\ remote_logins = <<>>
    /\ pc = "extract"
    /\ status = "running"
    /\ net = <<>>
    /\ out = <<>>
    /\ extracted = <<>>
    /\ skipped = <<>>
    /\ cred_name = None
    /\ decrypted = None

\* The process ends: exit(1), a panic, or main returns.
Stop(how) ==
    /\ pc' = "end"
    /\ status' = how

\* A panic: its message goes to stderr and the process ends.
Panic(msg) ==
    /\ Stop("panic")
    /\ out' = Append(out, [msg |-> msg])

\* Is this login taken as credentials by the loop body (current_is_cred)?
current_is_cred(name, login) ==
    \/ host_str(login.url) = Some("firefox.com")
    \/ (opt.pass_name # None /\ opt.pass_name[1] = name)

\* Variant: the loop body has no continue.
PushesAlways(name, login) == TRUE

\* Does the loop body push the login on local_logins?
PushesLogin(name, login) ==
    current_is_cred(name, login) => login.filter = Some("Include")

\* The part of a decrypt_file result the history keeps: whether it is Ok, the
\* first line of the plaintext and its url property.
Seen(result) ==
    IF result.ok
    THEN [ok |-> TRUE,
          first_line |-> result.plaintext.first_line,
          url_prop |-> plaintext_property_any(result.plaintext, PROPERTY_URL_NAMES)]
    ELSE [ok |-> FALSE, first_line |-> None, url_prop |-> None]

\* One iteration of the loop over the secrets.
ProcessSecret ==
    /\ pc = "extract"
    /\ i < Len(secrets)
    /\ \E result \in DecryptResults :
         LET name == secrets[i + 1]
             r == LocalLoginNew(name, result)
         IN
         /\ decrypted' = Some(Seen(result))
         /\ CASE r.kind = "exit" ->
                /\ Stop("exit1")
                /\ out' = Append(out, [msg |-> "Failed to decrypt", name |-> name])
                /\ UNCHANGED <<i, firefox_credentials, firefox_matches, local_logins,
                               include, exclude, extracted, skipped, cred_name>>
           [] r.kind = "panic" ->
                /\ Panic(r.msg)
                /\ UNCHANGED <<i, firefox_credentials, firefox_matches, local_logins,
                               include, exclude, extracted, skipped, cred_name>>
           [] r.kind = "none" ->
                /\ i' = i + 1
                /\ skipped' = Append(skipped, name)
                /\ UNCHANGED <<firefox_credentials, firefox_matches, local_logins,
                               include, exclude, pc, status, out, extracted, cred_name>>
           [] r.kind = "some" ->
                LET local_login == r.login IN
                IF host_str(local_login.url) = None
                THEN /\ Panic("host_str().unwrap()")
                     /\ UNCHANGED <<i, firefox_credentials, firefox_matches, local_logins,
                                    include, exclude, extracted, skipped, cred_name>>
                ELSE
                /\ i' = i + 1
                /\ include' = (include \/ local_login.filter = Some("Include"))
                /\ exclude' = (exclude \/ local_login.filter = Some("Exclude"))
                /\ extracted' = Append(extracted, [name |-> name, login |-> local_login])
                /\ IF host_str(local_login.url) = Some("firefox.com")
                   THEN /\ IF firefox_credentials = None
                           THEN /\ firefox_credentials' = Some(local_login)
                                /\ cred_name' = Some(name)
                           ELSE UNCHANGED <<firefox_credentials, cred_name>>
                        /\ firefox_matches' =
                               Append(firefox_matches, <<name, local_login.username>>)
                   ELSE IF opt.pass_name # None /\ opt.pass_name[1] = name
                   THEN /\ firefox_credentials' = Some(local_login)
                        /\ cred_name' = Some(name)
                        /\ UNCHANGED firefox_matches
                   ELSE UNCHANGED <<firefox_credentials, cred_name, firefox_matches>>
                /\ local_logins' = IF PushesLogin(name, local_login)
                                   THEN Append(local_logins, local_login)
                                   ELSE local_logins
                /\ UNCHANGED <<pc, status, out, skipped>>
    /\ UNCHANGED <<opt, secrets, remote_logins, net>>

\* Variant: several matches are accepted, the first one being used.
CredentialsOutcomeFirstMatch ==
    IF opt.pass_name # None
    THEN IF firefox_credentials = None THEN "panic" ELSE "ok"
    ELSE IF Len(firefox_matches) = 0 THEN "panic" ELSE "ok"

\* The match on opt.pass_name after the loop.
CredentialsOutcome ==
    IF opt.pass_name # None
    THEN IF firefox_credentials = None THEN "panic" ELSE "ok"
    ELSE CASE Len(firefox_matches) = 0 -> "panic"
           [] Len(firefox_matches) = 1 -> "ok"
           [] OTHER                    -> "exit1"

CheckCredentials ==
    /\ pc = "extract"
    /\ i = Len(secrets)
    /\ decrypted' = None
    /\ CASE CredentialsOutcome = "ok" ->
              /\ pc' = "settings"
              /\ UNCHANGED <<status, out>>
         [] CredentialsOutcome = "panic" ->
              Panic("Could not find Firefox Account credentials.")
         [] CredentialsOutcome = "exit1" ->
              /\ Stop("exit1")
              /\ out' = Append(out, [msg |-> "Ambiguous Firefox Account credential locations",
                                     matches |-> firefox_matches])
    /\ UNCHANGED <<opt, secrets, i, firefox_credentials, firefox_matches, local_logins,
                   include, exclude, remote_logins, net, extracted, skipped, cred_name>>

\* Variant: the run goes on whatever the flags.
CheckSettingsNoAbort ==
    /\ pc = "settings"
    /\ pc' = "authenticate"
    /\ UNCHANGED <<opt, secrets, i, firefox_credentials, firefox_matches, local_logins,
                   include, exclude, remote_logins, status, net, out, extracted, skipped,
                   cred_name, decrypted>>

\* if exclude && include { println!(..); return; }
CheckSettings ==
    /\ pc = "settings"
    /\ IF exclude /\ include
       THEN /\ Stop("success")
            /\ out' = Append(out, [msg |-> "Ambiguous settings"])
       ELSE /\ pc' = "authenticate"
            /\ UNCHANGED <<status, out>>
    /\ UNCHANGED <<opt, secrets, i, firefox_credentials, firefox_matches, local_logins,
                   include, exclude, remote_logins, net, extracted, skipped, cred_name,
                   decrypted>>

\* SyncClient::new(username, password).await; the call can fail.
Authenticate ==
    /\ pc = "authenticate"
    /\ net' = Append(net, [op |-> "authenticate",
                           username |-> firefox_credentials[1].username,
                           password |-> firefox_credentials[1].password])
    /\ \E ok \in BOOLEAN :
         IF ok THEN pc' = "get_logins" /\ UNCHANGED <<status, out>>
         ELSE Panic("SyncClient::new")
    /\ UNCHANGED <<opt, secrets, i, firefox_credentials, firefox_matches, local_logins,
                   include, exclude, remote_logins, extracted, skipped, cred_name,
                   decrypted>>

\* sync_client.get_logins().await
GetLogins ==
    /\ pc = "get_logins"
    /\ net' = Append(net, [op |-> "get_logins"])
    /\ \/ \E snapshot \in RemoteSnapshots :
             /\ remote_logins' = snapshot
             /\ pc' = "reconcile"
             /\ UNCHANGED <<status, out>>
       \/ /\ Panic("get_logins")
          /\ UNCHANGED remote_logins
    /\ UNCHANGED <<opt, secrets, i, firefox_credentials, firefox_matches, local_logins,
                   include, exclude, extracted, skipped, cred_name, decrypted>>

\* Variant: upload also runs when a subcommand was given.
UploadAnyRun ==
    /\ pc = "reconcile"
    /\ LET jobs == logins_to_upload(exclude, include, local_logins, remote_logins) IN
         /\ out' = Append(out, [msg |-> "Uploading", count |-> Len(jobs)])
         /\ net' = Append(net, [op |-> "put_logins", logins |-> jobs])
    /\ \E ok \in BOOLEAN : Stop(IF ok THEN "success" ELSE "panic")
    /\ UNCHANGED <<opt, secrets, i, firefox_credentials, firefox_matches, local_logins,
                   include, exclude, remote_logins, extracted, skipped, cred_name,
                   decrypted>>

\* upload(sync_client, exclude, include, local_logins, remote_logins).await
Upload ==
    /\ pc = "reconcile"
    /\ opt.subcommand = None
    /\ LET jobs == logins_to_upload(exclude, include, local_logins, remote_logins) IN
         /\ out' = Append(out, [msg |-> "Uploading", count |-> Len(jobs)])
         /\ net' = Append(net, [op |-> "put_logins", logins |-> jobs])
    /\ \E ok \in BOOLEAN : Stop(IF ok THEN "success" ELSE "panic")
    /\ UNCHANGED <<opt, secrets, i, firefox_credentials, firefox_matches, local_logins,
                   include, exclude, remote_logins, extracted, skipped, cred_name,
                   decrypted>>

\* delete(sync_client, local_logins, remote_logins).await
Delete ==
    /\ pc = "reconcile"
    /\ opt.subcommand = Some("Delete")
    /\ LET ids == logins_to_delete(local_logins, remote_logins) IN
         /\ out' = Append(out, [msg |-> "Deleting", count |-> Len(ids)])
         /\ net' = Append(net, [op |-> "delete_objects", ids |-> ids])
    /\ \E ok \in BOOLEAN : Stop(IF ok THEN "success" ELSE "panic")
    /\ UNCHANGED <<opt, secrets, i, firefox_credentials, firefox_matches, local_logins,
                   include, exclude, remote_logins, extracted, skipped, cred_name,
                   decrypted>>

Next ==
    \/ ProcessSecret
    \/ CheckCredentials
    \/ CheckSettings
    \/ Authenticate
    \/ GetLogins
    \/ Upload
    \/ Delete

Spec == Init /\ [][Next]_vars

----------------------------------------------------------------------------
(* Vocabulary of the properties, read off the history variables.           *)

Idx(s) == 1..Len(s)

LoginsOf(entries) == [k \in Idx(entries) |-> entries[k].login]

RECURSIVE Flatten(_)
Flatten(ss) == IF ss = <<>> THEN <<>> ELSE Head(ss) \o Flatten(Tail(ss))

\* Every secret was extracted without a fatal error.
LoopOver == i = Len(secrets)

Override == opt.pass_name # None

FirefoxHosted ==
    SelectSeq(extracted, LAMBDA e : e.login.url.host = Some("firefox.com"))

NamedByOverride ==
    SelectSeq(extracted, LAMBDA e : Override /\ e.name = opt.pass_name[1])

Marked(m) == \E k \in Idx(extracted) : extracted[k].login.filter = Some(m)

FilterMode ==
    CASE Marked("Include") /\ Marked("Exclude") -> "Conflicting"
      [] Marked("Include") /\ ~Marked("Exclude") -> "IncludeOnly"
      [] ~Marked("Include") /\ Marked("Exclude") -> "ExcludeOnly"
      [] OTHER -> "NoFilter"

NetOps == [k \in Idx(net) |-> net[k].op]

LastCall == net[Len(net)]
UploadDone == net # <<>> /\ LastCall.op = "put_logins"
DeleteDone == net # <<>> /\ LastCall.op = "delete_objects"
ReachedReconciler == pc = "reconcile" \/ UploadDone \/ DeleteDone

Fatal == status \in {"panic", "exit1"}

Printed(msg) == \E k \in Idx(out) : out[k].msg = msg

----------------------------------------------------------------------------
(* C1: in an upload run the batch handed to put_logins holds, for each     *)
(* local login L that reached the diff and in their order: one create job  *)
(* {L.username, L.password, L.hostname} when no remote login has L's       *)
(* username and hostname; otherwise, with R the first such remote login,   *)
(* nothing when R.password = L.password and one update job with R's id and *)
(* L's password when they differ.  Later remote logins with the same       *)
(* username and hostname play no part.                                     *)

RemoteMatches(L) ==
    { k \in Idx(remote_logins) :
        remote_logins[k].username = L.username /\ remote_logins[k].hostname = L.url }

FirstRemoteMatch(L) ==
    remote_logins[CHOOSE k \in RemoteMatches(L) : \A j \in RemoteMatches(L) : k <= j]

ExpectedJobs(L) ==
    IF RemoteMatches(L) = {}
    THEN << [id |-> NewId, username |-> L.username, password |-> L.password,
             hostname |-> L.url] >>
    ELSE LET R == FirstRemoteMatch(L) IN
         IF R.password = L.password THEN <<>>
         ELSE << [id |-> R.id, username |-> R.username, password |-> L.password,
                  hostname |-> R.hostname] >>

C1_UploadDiff ==
    UploadDone =>
        LET handed == filtered_logins(exclude, include, local_logins) IN
        LastCall.logins = Flatten([k \in Idx(handed) |-> ExpectedJobs(handed[k])])

\* An update job was emitted although a later remote login with the same
\* username and hostname already holds the local password.
C1_Witness ==
    /\ UploadDone
    /\ \E k \in Idx(LastCall.logins) : LastCall.logins[k].id # NewId
    /\ \E L \in { local_logins[k] : k \in Idx(local_logins) } :
         /\ Cardinality(RemoteMatches(L)) >= 2
         /\ FirstRemoteMatch(L).password # L.password
         /\ \E k \in RemoteMatches(L) : remote_logins[k].password = L.password

(* C2: in a delete run the ids handed to delete_objects are the ids of the *)
(* remote logins, in snapshot order, that equal some login of the local    *)
(* set in username, password and hostname; the local set is not narrowed   *)
(* by filter mode or markers, and a remote login that differs only in      *)
(* password from its local counterpart is not deleted.                     *)

FullyEqual(L, R) ==
    L.username = R.username /\ L.password = R.password /\ L.url = R.hostname

C2_DeleteList ==
    DeleteDone =>
        LET hit == SelectSeq(remote_logins,
                             LAMBDA R : \E k \in Idx(local_logins) :
                                            FullyEqual(local_logins[k], R))
        IN LastCall.ids = [k \in Idx(hit) |-> hit[k].id]

\* A delete run in which a login the upload filter would drop decides a
\* deletion, and a remote login differing only in password is kept.
C2_Witness ==
    /\ DeleteDone
    /\ \E k \in Idx(local_logins), r \in Idx(remote_logins) :
         /\ FullyEqual(local_logins[k], remote_logins[r])
         /\ (exclude \/ include)
         /\ ~UploadFilter(include, local_logins[k])
         /\ \E m \in Idx(LastCall.ids) : LastCall.ids[m] = remote_logins[r].id
    /\ \E k \in Idx(local_logins), r \in Idx(remote_logins) :
         /\ local_logins[k].username = remote_logins[r].username
         /\ local_logins[k].url = remote_logins[r].hostname
         /\ \A m \in Idx(LastCall.ids) : LastCall.ids[m] # remote_logins[r].id

(* C3: in an upload run the logins of the local set that reach the diff    *)
(* are: all of them under NoFilter, those marked Include under             *)
(* IncludeOnly, those not marked Exclude under ExcludeOnly, the mode being *)
(* folded from the markers of all extracted logins; the others give no     *)
(* job.                                                                    *)

Eligible(L) ==
    CASE FilterMode = "NoFilter" -> TRUE
      [] FilterMode = "IncludeOnly" -> L.filter = Some("Include")
      [] FilterMode = "ExcludeOnly" -> L.filter # Some("Exclude")
      [] OTHER -> FALSE

C3_Eligibility ==
    (opt.subcommand = None /\ ReachedReconciler) =>
        /\ filtered_logins(exclude, include, local_logins) = SelectSeq(local_logins, Eligible)
        /\ UploadDone =>
             LastCall.logins =
                 ToLogins(SelectSeq(local_logins, Eligible), remote_logins)

\* An IncludeOnly upload where an unmarked login of the local set is left out
\* and a marked one gives a job.
C3_Witness ==
    /\ UploadDone
    /\ FilterMode = "IncludeOnly"
    /\ \E k \in Idx(local_logins) : local_logins[k].filter = None
    /\ LastCall.logins # <<>>

\* The same under ExcludeOnly, the mode coming from a marker of a login that
\* is not in the local set.
C3_WitnessExclude ==
    /\ UploadDone
    /\ FilterMode = "ExcludeOnly"
    /\ \A k \in Idx(local_logins) : local_logins[k].filter = None
    /\ LastCall.logins # <<>>

(* C4 (as stated): whenever all secrets were extracted and the markers     *)
(* conflict, the run prints the notice, makes no call on the sync service  *)
(* and ends in success.                                                    *)

C4_ConflictAlwaysSucceeds ==
    (LoopOver /\ FilterMode = "Conflicting") =>
        /\ net = <<>>
        /\ pc \in {"extract", "settings", "end"}
        /\ pc = "end" => (status = "success" /\ Printed("Ambiguous settings"))

\* The credentials test of main passes: with an override some candidate was
\* recorded, without one exactly one login is hosted at firefox.com.
SelectionPasses ==
    IF Override
    THEN FirefoxHosted # <<>> \/ NamedByOverride # <<>>
    ELSE Len(FirefoxHosted) = 1

(* C4 (amended): whenever all secrets were extracted and the markers       *)
(* conflict, no call is made on the sync service; the run ends in success  *)
(* with the notice printed when the credentials test passes, and ends      *)
(* fatally without the notice when it does not.                            *)

C4_ConflictAbort ==
    (LoopOver /\ FilterMode = "Conflicting") =>
        /\ net = <<>>
        /\ pc \in {"extract", "settings", "end"}
        /\ pc = "end" =>
             IF SelectionPasses
             THEN status = "success" /\ Printed("Ambiguous settings")
             ELSE Fatal /\ ~Printed("Ambiguous settings")

C4_Witness ==
    /\ LoopOver /\ FilterMode = "Conflicting" /\ pc = "end"
    /\ status = "success"
    /\ Printed("Ambiguous settings")

(* C5: without an override and without conflicting markers, once all       *)
(* secrets are extracted: with exactly one login hosted at firefox.com the *)
(* run does not end before it authenticates, and it authenticates with     *)
(* that login's username and password; with none it ends in a panic; with  *)
(* two or more it prints every (secret name, username) pair and exits with *)
(* status 1; in the last two cases no call is made on the sync service.    *)

C5_HostnameSelection ==
    (LoopOver /\ ~Override /\ FilterMode # "Conflicting") =>
        LET n == Len(FirefoxHosted) IN
        /\ n = 1 =>
             /\ pc = "end" => net # <<>>
             /\ net # <<>> =>
                  net[1] = [op |-> "authenticate",
                            username |-> FirefoxHosted[1].login.username,
                            password |-> FirefoxHosted[1].login.password]
        /\ n # 1 => net = <<>> /\ pc \in {"extract", "end"}
        /\ (n = 0 /\ pc = "end") => status = "panic"
        /\ (n >= 2 /\ pc = "end") =>
             /\ status = "exit1"
             /\ out[Len(out)] =
                  [msg |-> "Ambiguous Firefox Account credential locations",
                   matches |-> [k \in Idx(FirefoxHosted) |->
                                   <<FirefoxHosted[k].name, FirefoxHosted[k].login.username>>]]

C5_Witness ==
    /\ LoopOver /\ ~Override /\ FilterMode # "Conflicting"
    /\ Len(FirefoxHosted) >= 2
    /\ status = "exit1"

C5_WitnessOne ==
    /\ LoopOver /\ ~Override /\ FilterMode # "Conflicting"
    /\ Len(FirefoxHosted) = 1 /\ Len(extracted) >= 2
    /\ net # <<>>

(* C6: with an override that names no extracted login, the run ends in a   *)
(* panic without any call on the sync service, also when logins hosted at  *)
(* firefox.com exist.                                                      *)

C6_OverrideNotFoundIsFatal ==
    (LoopOver /\ Override /\ NamedByOverride = <<>>) =>
        /\ net = <<>>
        /\ pc \in {"extract", "end"}
        /\ pc = "end" => status = "panic"

(* C7: with an override that names an extracted login, the run             *)
(* authenticates with that login's username and password, whatever its     *)
(* hostname and however many logins are hosted at firefox.com.             *)

C7_OverrideSelected ==
    (Override /\ NamedByOverride # <<>> /\ net # <<>>) =>
        /\ net[1].username = NamedByOverride[1].login.username
        /\ net[1].password = NamedByOverride[1].login.password

(* C8 (as stated): when a reconciler is reached, the local set is the      *)
(* extracted logins without the selected credential unless it is marked    *)
(* Include.                                                                *)

Candidate(e) ==
    \/ e.login.url.host = Some("firefox.com")
    \/ (Override /\ e.name = opt.pass_name[1])

(* C8 (amended): when a reconciler is reached, the local set is the        *)
(* extracted logins without every credential candidate (hosted at          *)
(* firefox.com, or named by the override) that is not marked Include.      *)

C8_WitnessInclude ==
    /\ ReachedReconciler
    /\ \E k \in Idx(extracted) :
         /\ cred_name = Some(extracted[k].name)
         /\ extracted[k].login.filter = Some("Include")
         /\ \E m \in Idx(local_logins) : local_logins[m] = extracted[k].login

\* The loop takes a step on a secret that decrypted.
Decrypts == pc = "extract" /\ i < Len(secrets) /\ decrypted' # None /\ decrypted'[1].ok

NothingExtracted ==
    UNCHANGED <<local_logins, include, exclude, firefox_credentials, firefox_matches,
                extracted, net>>

(* C9 (as stated): a secret that decrypts but has no first line is         *)
(* skipped: the loop goes on to the next secret and nothing is extracted.  *)

C9_NoPasswordSkipped ==
    [][ (Decrypts /\ decrypted'[1].first_line = None) =>
            (i' = i + 1 /\ status' = "running" /\ pc' = "extract" /\ NothingExtracted) ]_vars

(* C9 (amended): a secret that decrypts but has no first line ends the run *)
(* in a panic, before any call on the sync service.  The secret that is    *)
(* skipped is one with a first line, no url property and a name without a  *)
(* parent directory: the loop goes on to the next secret, nothing is       *)
(* extracted from it and nothing is printed.                               *)

C9_NoPasswordFatal ==
    [][ /\ (Decrypts /\ decrypted'[1].first_line = None) =>
            (i' = i /\ status' = "panic" /\ pc' = "end" /\ net' = <<>> /\ NothingExtracted)
        /\ (/\ Decrypts
            /\ decrypted'[1].first_line # None
            /\ decrypted'[1].url_prop = None
            /\ Len(secrets[i + 1]) = 1) =>
            (i' = i + 1 /\ status' = "running" /\ pc' = "extract" /\ out' = out
               /\ NothingExtracted) ]_vars

C9_Witness ==
    /\ status = "panic"
    /\ decrypted # None
    /\ decrypted[1].ok
    /\ decrypted[1].first_line = None
    /\ i >= 1

C9_WitnessSkip ==
    /\ skipped # <<>>
    /\ extracted # <<>>
    /\ status = "success"
    /\ Len(net) = 3

(* C10: the calls on the sync service are authenticate, then get_logins,   *)
(* then one batch (put_logins in the default run, delete_objects in a      *)
(* delete run); the first is made only after every secret was extracted    *)
(* and the credentials test passed; a run that ends by exit(1) or ends in  *)
(* the loop has made none; a run that ends in success without conflicting  *)
(* markers has made all three.                                             *)

Batch == IF opt.subcommand = None THEN "put_logins" ELSE "delete_objects"

C10_NetworkOrder ==
    /\ NetOps = SubSeq(<<"authenticate", "get_logins", Batch>>, 1, Len(net))
    /\ Len(net) <= 3
    /\ net # <<>> => (LoopOver /\ SelectionPasses /\ firefox_credentials # None)
    /\ (status = "exit1" \/ ~LoopOver) => net = <<>>
    /\ status = "success" => (Len(net) = 3 \/ (net = <<>> /\ FilterMode = "Conflicting"))
    /\ Len(net) = 3 => pc = "end"

C10_Witness ==
    /\ status = "success"
    /\ NetOps = <<"authenticate", "get_logins", "delete_objects">>
    /\ Len(secrets) = MaxSecrets

====
